---- MODULE Spec2Model ----
(***************************************************************************)
(* Session supervisor of the messaging gateway: the in-memory registry     *)
(* `clients`, the `cleanupLocks` mutex map, the persisted state records    *)
(* (redis hashes), the session artifact directories and the forked worker  *)
(* processes, as implemented in src/src/services/clientService.js          *)
(* (the revision with cleanupLocks and the QR timeout, lines 259-688).     *)
(*                                                                         *)
(* The supervisor is a single-threaded event loop.  A macrotask (an API    *)
(* call, an IPC message, a process exit, a timer, an I/O completion) is    *)
(* one action.  Continuations of `await` on an in-flight teardown are      *)
(* queued in `waiters`; when the teardown completes they move to `runq`    *)
(* (the microtask queue) and run, in order, before any other macrotask.    *)
(***************************************************************************)
EXTENDS Integers, Sequences, FiniteSets, TLC

Tenants == {"t1", "t2"}

\* Bounds of the model.
MaxWorkers == 3
MaxTd == 2
MaxInflight == 2
MaxEvents == 4
MaxOrphans == 2
MaxJobs == 20
MaxSends == 2

VARIABLES
    clients,       \* clients[t]: the in-memory session record of tenant t
    cleanupLocks,  \* cleanupLocks[t]: 0 (no entry) or the id of the teardown whose promise is stored
    td,            \* td[i]: the i-th teardown sequence (the async body stored in cleanupLocks)
    redis,         \* redis[t]: the persisted state record (hash) of tenant t
    artifacts,     \* artifacts[t]: the session directory session-<t> exists
    workers,       \* workers[w]: the w-th forked worker process and the closures created with it
    pathIO,        \* pathIO[w]: initializeClient calls suspended in fs.pathExists that captured worker w's record
    last,          \* the most recent API call that returned or whose promise settled, as its caller sees it
    waiters,       \* continuations awaiting a pending teardown promise, in registration order
    runq,          \* continuations whose awaited promise has settled (microtask queue)
    nextW,         \* next unused worker slot
    nextTd,        \* next unused teardown slot
    events,        \* number of API calls and spontaneous environment events so far
    recon,         \* the startup scan cleanupOrphanedClients: its position and what it read
    disp,          \* one worker's queue consumer processRedisQueue, its queue and its configuration
    monitor,       \* the MemoryMonitor: its cooldown, and what its actions did (history)
    sends,         \* sends[s]: the s-th sendImmediateMessage call, its promise and its listener
    tall,          \* the terminateAllClientsService call: its position and the teardowns it awaits
    queues         \* the job lists of the store by key, and the job each worker popped last

vars == <<clients, cleanupLocks, td, redis, artifacts, workers, pathIO, last, waiters, runq, nextW, nextTd, events,
          recon, disp, monitor, sends, tall, queues>>

WorkerIds == 1..MaxWorkers
TdIds == 1..MaxTd

NoClient == [present |-> FALSE, proc |-> 0, isActive |-> FALSE, isReady |-> FALSE,
             isInitializing |-> FALSE, qrTimeout |-> FALSE]

NoState == [present |-> FALSE, hasId |-> FALSE, pid |-> 0, status |-> "none"]

NoWorker == [t |-> "none", state |-> "unborn", listeners |-> "none", initP |-> "pending",
             qrP |-> "pending", timer |-> "none", readyT |-> FALSE, discIO |-> FALSE,
             outer |-> "none", joined |-> "none", fatal |-> "none"]

NoTd == [t |-> "none", phase |-> "unused", full |-> FALSE, proc |-> 0, failed |-> FALSE]

\* cleanupOrphanedClients not started: nothing read, no record in hand.
NoRecon == [phase |-> "idle", snap |-> [t \in Tenants |-> NoState], todo |-> {}, cur |-> "none",
            denied |-> {}]

\* config/delays.js: the default delay configuration (milliseconds, and the burst limit).
DefaultDelays == [msgMin |-> 15000, msgMax |-> 35000, restMin |-> 60000, restMax |-> 120000,
                  limit |-> 10]

\* No queue consumer: the worker has not signalled ready.
NoDisp == [pc |-> "off", queue |-> <<>>, produced |-> 0, job |-> 0, config |-> DefaultDelays,
           currentConfig |-> DefaultDelays, messageCount |-> 0, delay |-> 0, handed |-> 0,
           sent |-> 0, dropped |-> 0]

\* new MemoryMonitor(): lastActionTimestamp = 0, so no cooldown is running; no action yet.
NoMonitor == [cooling |-> FALSE, started |-> {}, spared |-> {}, skipped |-> FALSE]

SendIds == 1..MaxSends

\* No sendImmediateMessage call in slot s.  by: the send whose acknowledgment settled the
\* promise (history), -1 for the 30 s timeout, 0 while unsettled.
NoSend == [state |-> "none", lead |-> "null", listening |-> FALSE, job |-> "none", by |-> 0]

\* terminateAllClientsService not called.
NoTall == [phase |-> "idle", ids |-> {}, procs |-> [t \in Tenants |-> 0], tds |-> {},
           started |-> {}]

\* Mutant of QueueKey: one list for all tenants.
QueueKey_Shared(t) == <<"whatsapp:queue:", "">>

\* queueKey = `whatsapp:queue:${clientId}`
QueueKey(t) == <<"whatsapp:queue:", t>>

QueueKeys == {QueueKey(t) : t \in Tenants}

\* No job in any list, no job popped by any worker.
NoQueues == [lists |-> [k \in QueueKeys |-> <<>>], popped |-> [w \in WorkerIds |-> "none"]]


NoCall == [op |-> "none", t |-> "none", branch |-> "none", res |-> "pending", ex |-> 0,
           opts |-> "none", own |-> FALSE]

Init ==
    /\ clients = [t \in Tenants |-> NoClient]
    /\ cleanupLocks = [t \in Tenants |-> 0]
    /\ td = [i \in TdIds |-> NoTd]
    /\ redis = [t \in Tenants |-> NoState]
    /\ artifacts \in {a \in [Tenants -> BOOLEAN] : \A t \in Tenants \ {"t1"} : ~a[t]}
    /\ workers = [w \in WorkerIds |-> NoWorker]
    /\ pathIO = [w \in WorkerIds |-> 0]
    /\ last = NoCall
    /\ waiters = <<>>
    /\ runq = <<>>
    /\ nextW = 1
    /\ nextTd = 1
    /\ events = 0
    /\ recon = NoRecon
    /\ disp = NoDisp
    /\ monitor = NoMonitor
    /\ sends = [s \in SendIds |-> NoSend]
    /\ tall = NoTall
    /\ queues = NoQueues

\* The part of the state the supervisor's helper functions read and write.
Cur == [clients |-> clients, locks |-> cleanupLocks, td |-> td, redis |-> redis,
        workers |-> workers, waiters |-> waiters, runq |-> runq,
        nextW |-> nextW, nextTd |-> nextTd, ret |-> 0]

Apply(S) ==
    /\ clients' = S.clients
    /\ cleanupLocks' = S.locks
    /\ td' = S.td
    /\ redis' = S.redis
    /\ workers' = S.workers
    /\ waiters' = S.waiters
    /\ runq' = S.runq
    /\ nextW' = S.nextW
    /\ nextTd' = S.nextTd

\* A process is alive for process.kill(pid, 0) until its exit has been observed.
Alive(st) == st \in {"running", "killed"}

\* redis.hmset(key, {status}): merges the field into the hash, creating it if absent.
HmsetStatus(r, s) == [r EXCEPT !.present = TRUE, !.status = s]

\* Mutant of SetStatus: the status write is never issued.
SetStatus_Dropped(S, t, s) == S

\* setClientState(clientId, {status}) issued without awaiting; commands of the single
\* connection are applied in issue order, so the write is applied when it is issued.
SetStatus(S, t, s) == [S EXCEPT !.redis[t] = HmsetStatus(@, s)]

\* clearQrTimeout(id)
clearQrTimeout(S, t) ==
    IF S.clients[t].present /\ S.clients[t].qrTimeout
    THEN [S EXCEPT !.workers[S.clients[t].proc].timer = IF @ = "armed" THEN "cleared" ELSE @,
                   !.clients[t].qrTimeout = FALSE]
    ELSE S

\* fullCleanup of cleanupClient(clientId, { fullCleanup = true } = {}) for the options object
\* a caller passes: "none" is terminateClient(clientId) without options.
FullCleanupOption(opts) == opts # "graceful"

\* Mutant of LockHeld: the mutex check is missing.
LockHeld_Never(S, t) == FALSE

\* cleanupLocks.has(clientId)
LockHeld(S, t) == S.locks[t] # 0

\* Mutant of PostWait: a failing store command aborts the teardown before the record is removed.
PostWait_AbortOnFailure(S, i, ok) ==
    LET t == S.td[i].t
        full == S.td[i].full
    IN IF ~ok
       THEN [S EXCEPT !.td[i].phase = "state", !.td[i].failed = TRUE]
       ELSE [S EXCEPT !.clients[t] = NoClient,
                      !.redis[t] = IF full THEN NoState ELSE HmsetStatus(@, "disconnected"),
                      !.td[i].phase = "state"]

\* The teardown body after the wait for the worker: remove the record from the registry,
\* then issue the store command (DEL on a full cleanup, HMSET status=disconnected otherwise).
\* ok = FALSE is the store command failing (caught and logged).
PostWait(S, i, ok) ==
    LET t == S.td[i].t
        full == S.td[i].full
    IN [S EXCEPT !.clients[t] = NoClient,
                 !.redis[t] = IF ~ok THEN @
                              ELSE IF full THEN NoState
                              ELSE HmsetStatus(@, "disconnected"),
                 !.td[i].phase = "state",
                 !.td[i].failed = @ \/ ~ok]

\* A new teardown sequence: the synchronous prefix of the lock body and cleanupLocks.set.
StartTeardown(S, t, full, ok) ==
    LET i == S.nextTd
        ex == S.clients[t]
        S1 == [S EXCEPT !.nextTd = i + 1,
                        !.locks[t] = i,
                        !.td[i] = [t |-> t, phase |-> "wait", full |-> full, proc |-> ex.proc,
                                   failed |-> FALSE],
                        !.ret = i]
    IN IF ex.present /\ S.workers[ex.proc].state # "exited"
       THEN \* terminate sent; listeners replaced by the once-exit / once-error of the wait
            [S1 EXCEPT !.workers[ex.proc].listeners = "cleanup"]
       ELSE IF ex.present
       THEN \* IPC channel closed: the send fails and the wait ends at once
            PostWait([S1 EXCEPT !.workers[ex.proc].listeners = "none"], i, ok)
       ELSE PostWait(S1, i, ok)

\* cleanupClient(clientId, { fullCleanup }): S.ret is the teardown whose promise is returned.
cleanupClient(S, t, full, ok) ==
    IF LockHeld(S, t)
    THEN [S EXCEPT !.ret = S.locks[t]]
    ELSE StartTeardown(S, t, full, ok)

\* cleanupClient can run within the bound on teardown slots.
CanCleanup(t) == LockHeld(Cur, t) \/ nextTd <= MaxTd

\* await on the promise cleanupClient returned: continuation k resumes as a microtask.
Await(S, k) ==
    LET kk == [kind |-> k.kind, id |-> k.id, opts |-> k.opts, own |-> k.own, td |-> S.ret]
    IN IF S.td[S.ret].phase = "done"
       THEN [S EXCEPT !.runq = Append(@, kk)]
       ELSE [S EXCEPT !.waiters = Append(@, kk)]

\* The teardown promise resolves: its waiters become runnable, in order.
Complete(S, i) ==
    [S EXCEPT !.td[i].phase = "done",
              !.runq = @ \o SelectSeq(S.waiters, LAMBDA k : k.td = i),
              !.waiters = SelectSeq(@, LAMBDA k : k.td # i)]

\* fork + initial persisted record + the new session record with its timer and handlers.
Fork(S, t) ==
    LET w == S.nextW
    IN [S EXCEPT !.nextW = w + 1,
                 !.workers[w] = [t |-> t, state |-> "running", listeners |-> "init",
                                 initP |-> "pending", qrP |-> "pending", timer |-> "armed",
                                 readyT |-> FALSE, discIO |-> FALSE,
                                 outer |-> "pending", joined |-> "none", fatal |-> "none"],
                 !.clients[t] = [present |-> TRUE, proc |-> w, isActive |-> FALSE,
                                 isReady |-> FALSE, isInitializing |-> TRUE, qrTimeout |-> TRUE],
                 !.redis[t] = [present |-> TRUE, hasId |-> TRUE, pid |-> w,
                               status |-> "initializing"]]

Idle == runq = <<>>

\* API calls whose continuation is suspended (in fs.pathExists or on a teardown promise).
RECURSIVE SumPath(_)
SumPath(W) == IF W = {} THEN 0 ELSE LET w == CHOOSE x \in W : TRUE IN pathIO[w] + SumPath(W \ {w})

Inflight == SumPath(WorkerIds) + Len(SelectSeq(waiters, LAMBDA k : k.kind \in {"init", "term"}))

CanCall == Idle /\ Inflight < MaxInflight

\* Worker slots the suspended initializeClient calls of case 3 will fork into.
Reserved ==
    SumPath(WorkerIds) + Len(SelectSeq(waiters \o runq, LAMBDA k : k.kind = "init"))

\* An initializeClient call can be taken within the bound on worker slots.
CanFork == nextW + Reserved <= MaxWorkers

\* One more API call or spontaneous environment event within the bound.
Stimulus == events < MaxEvents /\ events' = events + 1

Quiet == UNCHANGED events

(***************************************************************************)
(* initializeClient                                                        *)
(***************************************************************************)

\* Mutant of AlreadyActive: case 1 tests isActive only.
AlreadyActive_ActiveOnly(rec) == rec.isActive

\* Case 1 of initializeClient: the record is already active or ready.
AlreadyActive(rec) == rec.isActive \/ rec.isReady

\* Case 2 of initializeClient: the record is initializing and holds its promise.
AlreadyInitializing(rec) == rec.isInitializing

Returned(op, t, branch, res, ex, opts, own) ==
    [op |-> op, t |-> t, branch |-> branch, res |-> res, ex |-> ex, opts |-> opts, own |-> own]

\* initializeClient(t) up to its first suspension.  The returned promise is the outer
\* `new Promise(async (resolve, reject) => ...)`: resolve is called in case 1 only, and the
\* value the executor returns in case 2 is discarded.
InitializeClient(t) ==
    /\ Stimulus
    /\ CanCall
    /\ LET rec == clients[t]
       IN IF ~rec.present
          THEN /\ CanFork
               /\ Apply(Fork(Cur, t))
               /\ last' = Returned("init", t, "fork", "pending", nextW, "none", FALSE)
               /\ UNCHANGED pathIO
          ELSE IF AlreadyActive(rec)
          THEN /\ last' = Returned("init", t, "active", "resolved", rec.proc, "none", FALSE)
               /\ UNCHANGED <<clients, cleanupLocks, td, redis, workers, waiters, runq, nextW,
                              nextTd, pathIO>>
          ELSE IF AlreadyInitializing(rec)
          THEN /\ Apply([Cur EXCEPT !.workers[rec.proc].joined = "pending"])
               /\ last' = Returned("init", t, "dedup", "pending", rec.proc, "none", FALSE)
               /\ UNCHANGED pathIO
          ELSE \* case 3: await fs.pathExists(clientAuthDir)
               /\ CanFork
               /\ pathIO' = [pathIO EXCEPT ![rec.proc] = @ + 1]
               /\ last' = Returned("init", t, "stale", "pending", rec.proc, "none", FALSE)
               /\ UNCHANGED <<clients, cleanupLocks, td, redis, workers, waiters, runq, nextW,
                              nextTd>>
    /\ UNCHANGED <<artifacts, recon, disp, monitor, sends, tall, queues>>

\* Case 3 after pathExists: graceful cleanup when a session directory exists, else full.
InitPathDone(ex, ok) ==
    /\ Quiet
    /\ Idle
    /\ pathIO[ex] > 0
    /\ CanCleanup(workers[ex].t)
    /\ LET t == workers[ex].t
           S1 == cleanupClient(Cur, t, ~artifacts[t], ok)
       IN Apply(Await(S1, [kind |-> "init", id |-> ex, opts |-> "none", own |-> FALSE]))
    /\ pathIO' = [pathIO EXCEPT ![ex] = @ - 1]
    /\ UNCHANGED <<artifacts, last, recon, disp, monitor, sends, tall, queues>>

\* Case 3 after the cleanup: probe the old process, SIGKILL it if it is there, then fork.
InitAfterCleanup(S, ex) ==
    LET S0 == IF S.workers[ex].state = "running"
              THEN [S EXCEPT !.workers[ex].state = "killed"]
              ELSE S
    IN Fork(S0, S.workers[ex].t)

(***************************************************************************)
(* terminateClient                                                         *)
(***************************************************************************)

\* terminateClient(clientId, options): await cleanupClient(clientId, options).
TerminateClient(t, opts, ok) ==
    /\ Stimulus
    /\ CanCall
    /\ CanCleanup(t)
    /\ LET S1 == cleanupClient(Cur, t, FullCleanupOption(opts), ok)
       IN Apply(Await(S1, [kind |-> "term", id |-> clients[t].proc, opts |-> opts,
                            own |-> ~LockHeld(Cur, t)]))
    /\ UNCHANGED <<artifacts, pathIO, last, recon, disp, monitor, sends, tall, queues>>

(***************************************************************************)
(* The teardown sequence (the async body stored in cleanupLocks)           *)
(***************************************************************************)

\* Mutant of KillProcess: the signal is not sent.
KillProcess_NotSent(S, w) == S

\* existingClientEntry.process.kill('SIGKILL') in the timer of the wait
KillProcess(S, w) ==
    IF S.workers[w].state = "running" THEN [S EXCEPT !.workers[w].state = "killed"] ELSE S

\* Mutant of TdTimeout: the timer only logs, with no SIGKILL and no end of the wait.
TdTimeout_LogOnly(i, ok) ==
    /\ Quiet
    /\ Idle
    /\ td[i].phase = "wait"
    /\ Apply(Cur)
    /\ UNCHANGED <<artifacts, pathIO, last, recon, disp, monitor, sends, tall, queues>>

\* The 10 s timer of the wait fires: SIGKILL, then the body goes on.
TdTimeout(i, ok) ==
    /\ Quiet
    /\ Idle
    /\ td[i].phase = "wait"
    /\ Apply(PostWait(KillProcess(Cur, td[i].proc), i, ok))
    /\ UNCHANGED <<artifacts, pathIO, last, recon, disp, monitor, sends, tall, queues>>

\* Mutant of TdStateDone: the directory is wiped whatever fullCleanup says.
TdStateDone_AlwaysWipe(i) ==
    /\ Quiet
    /\ Idle
    /\ td[i].phase = "state"
    /\ Apply([Cur EXCEPT !.td[i].phase = "path"])
    /\ UNCHANGED <<artifacts, pathIO, last, recon, disp, monitor, sends, tall, queues>>

\* The store command of the teardown has been answered.
TdStateDone(i) ==
    /\ Quiet
    /\ Idle
    /\ td[i].phase = "state"
    /\ IF td[i].full
       THEN Apply([Cur EXCEPT !.td[i].phase = "path"])
       ELSE Apply(Complete(Cur, i))
    /\ UNCHANGED <<artifacts, pathIO, last, recon, disp, monitor, sends, tall, queues>>

\* fs.pathExists(clientAuthDir) of a full cleanup has been answered.
TdPathDone(i) ==
    /\ Quiet
    /\ Idle
    /\ td[i].phase = "path"
    /\ IF artifacts[td[i].t]
       THEN Apply([Cur EXCEPT !.td[i].phase = "rm"])
       ELSE Apply(Complete(Cur, i))
    /\ UNCHANGED <<artifacts, pathIO, last, recon, disp, monitor, sends, tall, queues>>

\* fs.remove(clientAuthDir) has finished; ok = FALSE is the removal failing (caught and logged).
TdRmDone(i, ok) ==
    /\ Quiet
    /\ Idle
    /\ td[i].phase = "rm"
    /\ artifacts' = IF ok THEN [artifacts EXCEPT ![td[i].t] = FALSE] ELSE artifacts
    /\ Apply(Complete([Cur EXCEPT !.td[i].failed = @ \/ ~ok], i))
    /\ UNCHANGED <<pathIO, last, recon, disp, monitor, sends, tall, queues>>

(***************************************************************************)
(* Worker events                                                           *)
(***************************************************************************)

Messages == {"ready", "qr", "disconnected", "auth_failure", "init_error", "error", "terminated"}

\* Mutant of Settle: a rejection is dropped.
Settle_ResolveOnly(p, v) == IF p = "pending" /\ v = "resolved" THEN v ELSE p

\* resolve / reject of a promise: only the first settlement counts.
Settle(p, v) == IF p = "pending" THEN v ELSE p

\* The first fatal session event the handlers of worker w have seen (history of the run).
Fatal(S, w, e) == [S EXCEPT !.workers[w].fatal = IF @ = "none" THEN e ELSE @]

\* The 'message' handler attached by initializeClient for worker w.
WorkerMessage(w, m, ok) ==
    /\ Stimulus
    /\ Idle
    /\ workers[w].state = "running"
    /\ workers[w].listeners = "init"
    /\ LET t == workers[w].t IN
       /\ clients[t].present
       /\ m \in {"auth_failure", "init_error", "error"} => CanCleanup(t)
       /\ CASE m = "ready" ->
                 Apply(clearQrTimeout(
                     SetStatus([Cur EXCEPT !.clients[t].isReady = TRUE,
                                           !.clients[t].isActive = TRUE,
                                           !.workers[w].readyT = TRUE], t, "active"), t))
            [] m = "qr" ->
                 Apply(SetStatus(
                     [Cur EXCEPT !.clients[t].isInitializing = FALSE,
                                 !.workers[w].initP = IF clients[t].isInitializing
                                                      THEN Settle(@, "resolved") ELSE @,
                                 !.workers[w].qrP = Settle(@, "resolved")], t, "qr_ready"))
            [] m = "disconnected" ->
                 \* await setClientState(...) suspends the handler
                 Apply(SetStatus(Fatal([Cur EXCEPT !.clients[t].isActive = FALSE,
                                                   !.workers[w].discIO = TRUE], w, m),
                                 t, "disconnected"))
            [] m = "auth_failure" ->
                 Apply(clearQrTimeout(
                     cleanupClient(Fatal([Cur EXCEPT !.clients[t].isActive = FALSE,
                                                     !.clients[t].isInitializing = FALSE,
                                                     !.workers[w].initP = Settle(@, "rejected"),
                                                     !.workers[w].qrP = Settle(@, "rejected")],
                                         w, m),
                                   t, TRUE, ok), t))
            [] m = "init_error" ->
                 Apply(clearQrTimeout(
                     cleanupClient(Fatal([Cur EXCEPT !.clients[t].isInitializing = FALSE,
                                                     !.workers[w].initP = Settle(@, "rejected"),
                                                     !.workers[w].qrP = Settle(@, "rejected")],
                                         w, m),
                                   t, TRUE, ok), t))
            [] m = "error" ->
                 \* initializationPromise.reject is not a function: when the record is still
                 \* initializing the handler throws before clearQrTimeout
                 LET S1 == cleanupClient(Cur, t, TRUE, ok)
                 IN IF S1.clients[t].present /\ S1.clients[t].isInitializing
                    THEN Apply(S1)
                    ELSE Apply(clearQrTimeout(S1, t))
            [] m = "terminated" ->
                 Apply(clearQrTimeout(Cur, t))
    /\ UNCHANGED <<artifacts, pathIO, last, recon, disp, monitor, sends, tall, queues>>

\* The 'disconnected' handler after its awaited setClientState.
DisconnectedCont(w, ok) ==
    /\ Quiet
    /\ Idle
    /\ workers[w].discIO
    /\ CanCleanup(workers[w].t)
    /\ LET t == workers[w].t
       IN Apply(clearQrTimeout(
              cleanupClient([Cur EXCEPT !.workers[w].discIO = FALSE], t, TRUE, ok), t))
    /\ UNCHANGED <<artifacts, pathIO, last, recon, disp, monitor, sends, tall, queues>>

\* The worker process exits (on its own, after terminate, or after SIGKILL).
WorkerExit(w, ok) ==
    /\ IF workers[w].state = "running" /\ workers[w].listeners = "init"
       THEN Stimulus   \* the worker dies on its own
       ELSE Quiet      \* the worker was told to terminate or was killed
    /\ Idle
    /\ Alive(workers[w].state)
    /\ workers[w].listeners = "init" => CanCleanup(workers[w].t)
    /\ LET t == workers[w].t
           S0 == [Cur EXCEPT !.workers[w].state = "exited"]
           waiting == {i \in TdIds : td[i].phase = "wait" /\ td[i].proc = w}
       IN CASE workers[w].listeners = "init" ->
                 \* the 'exit' handler of initializeClient: await cleanupClient(full)
                 Apply(Await(cleanupClient(Fatal(S0, w, "exit"), t, TRUE, ok),
                             [kind |-> "exit", id |-> w, opts |-> "none", own |-> FALSE]))
            [] workers[w].listeners = "cleanup" /\ waiting # {} ->
                 \* the once-exit of the teardown's wait
                 Apply(PostWait([S0 EXCEPT !.workers[w].listeners = "none"],
                                CHOOSE i \in waiting : TRUE, ok))
            [] OTHER -> Apply([S0 EXCEPT !.workers[w].listeners = "none"])
    /\ UNCHANGED <<artifacts, pathIO, last, recon, disp, monitor, sends, tall, queues>>

\* The worker stores its session in the directory session-<t>.
WorkerSaveSession(w) ==
    /\ Stimulus
    /\ Idle
    /\ workers[w].state = "running"
    /\ ~artifacts[workers[w].t]
    /\ artifacts' = [artifacts EXCEPT ![workers[w].t] = TRUE]
    /\ UNCHANGED <<clients, cleanupLocks, td, redis, workers, pathIO, last, waiters, runq, nextW, nextTd, recon, disp, monitor, sends, tall, queues>>

(***************************************************************************)
(* Timers                                                                  *)
(***************************************************************************)

\* The QR timeout created with worker w fires.
QrTimerFire(w, ok) ==
    /\ Stimulus
    /\ Idle
    /\ workers[w].timer = "armed"
    /\ LET t == workers[w].t
           cur == clients[t]
       IN IF cur.present /\ ~cur.isActive /\ ~cur.isReady
          THEN /\ CanCleanup(t)
               /\ Apply(Await(cleanupClient([Cur EXCEPT !.workers[w].timer = "fired"],
                                            t, TRUE, ok),
                              [kind |-> "timer", id |-> w, opts |-> "none", own |-> FALSE]))
          ELSE \* no record, or the record is active or ready: the callback only logs
               Apply([Cur EXCEPT !.workers[w].timer = "lapsed"])
    /\ UNCHANGED <<artifacts, pathIO, last, recon, disp, monitor, sends, tall, queues>>

\* The 1 s timer set on 'ready' fires: resolveInitializationPromise().
ReadyTimerFire(w) ==
    /\ Quiet
    /\ Idle
    /\ workers[w].readyT
    /\ Apply([Cur EXCEPT !.workers[w].readyT = FALSE, !.workers[w].initP = Settle(@, "resolved")])
    /\ UNCHANGED <<artifacts, pathIO, last, recon, disp, monitor, sends, tall, queues>>

(***************************************************************************)
(* Microtasks: continuations after an awaited cleanupClient                *)
(***************************************************************************)

RunMicrotask ==
    /\ Quiet
    /\ runq # <<>>
    /\ LET k == Head(runq)
           S0 == [Cur EXCEPT !.runq = Tail(@)]
       IN CASE k.kind = "init" ->
                 /\ Apply(InitAfterCleanup(S0, k.id))
                 /\ UNCHANGED last
            [] k.kind = "term" ->
                 /\ Apply(S0)
                 /\ last' = Returned("term", td[k.td].t, "none", "resolved", k.id, k.opts, k.own)
            [] k.kind = "exit" ->
                 \* initializationPromise.reject is not a function: the handler throws
                 \* before clearQrTimeout when a record of the tenant is initializing
                 /\ LET t == workers[k.id].t
                    IN IF clients[t].present /\ clients[t].isInitializing
                       THEN Apply(S0)
                       ELSE Apply(clearQrTimeout(S0, t))
                 /\ UNCHANGED last
            [] k.kind = "timer" ->
                 /\ Apply([S0 EXCEPT !.workers[k.id].initP = Settle(@, "rejected")])
                 /\ UNCHANGED last
    /\ UNCHANGED <<artifacts, pathIO, recon, disp, monitor, sends, tall, queues>>

\* The system over the tenants T, with store and file-system commands answering
\* with an outcome in Oks (TRUE success, FALSE failure).
NextOver(T, Oks) ==
    \/ \E t \in T : InitializeClient(t)
    \/ \E w \in WorkerIds, ok \in Oks : InitPathDone(w, ok)
    \/ \E t \in T, opts \in {"none", "graceful"}, ok \in Oks : TerminateClient(t, opts, ok)
    \/ \E i \in TdIds, ok \in Oks : TdTimeout(i, ok)
    \/ \E i \in TdIds : TdStateDone(i)
    \/ \E i \in TdIds : TdPathDone(i)
    \/ \E i \in TdIds, ok \in Oks : TdRmDone(i, ok)
    \/ \E w \in WorkerIds, m \in Messages, ok \in Oks : WorkerMessage(w, m, ok)
    \/ \E w \in WorkerIds, ok \in Oks : DisconnectedCont(w, ok)
    \/ \E w \in WorkerIds, ok \in Oks : WorkerExit(w, ok)
    \/ \E w \in WorkerIds : WorkerSaveSession(w)
    \/ \E w \in WorkerIds, ok \in Oks : QrTimerFire(w, ok)
    \/ \E w \in WorkerIds : ReadyTimerFire(w)
    \/ RunMicrotask

\* Sessions of distinct tenants share no state in these operations (every map is keyed
\* by clientId), so one tenant is driven; store and file-system commands may fail.
Next == NextOver({"t1"}, BOOLEAN)

Spec == Init /\ [][Next]_vars

\* The event loop delivers what is already under way: queued continuations run, store and
\* file-system commands are answered, the 10 s timer of a teardown's wait and the 1 s timer
\* of 'ready' fire, and a process that was sent SIGKILL exits.  The QR timeout (120 s) is
\* counted with the environment's events and is not forced.
Delivered(Oks) ==
    \/ RunMicrotask
    \/ \E w \in WorkerIds, ok \in Oks : InitPathDone(w, ok)
    \/ \E i \in TdIds, ok \in Oks : TdTimeout(i, ok)
    \/ \E i \in TdIds : TdStateDone(i)
    \/ \E i \in TdIds : TdPathDone(i)
    \/ \E i \in TdIds, ok \in Oks : TdRmDone(i, ok)
    \/ \E w \in WorkerIds, ok \in Oks : DisconnectedCont(w, ok)
    \/ \E w \in WorkerIds : ReadyTimerFire(w)
    \/ \E w \in WorkerIds, ok \in Oks : workers[w].state = "killed" /\ WorkerExit(w, ok)

\* The same system with every store and file-system command succeeding.
LiveNext == NextOver({"t1"}, {TRUE})

\* Each delivered step happens a bounded number of times per API call and event, so one
\* weak fairness condition on their disjunction leaves none of them waiting for ever.
LiveSpec == Init /\ [][LiveNext]_vars /\ WF_vars(Delivered({TRUE}))

(***************************************************************************)
(* MemoryMonitor (memoryMonitor.js)                                        *)
(***************************************************************************)

\* Mutant of Evictable: every registered session is a candidate.
Evictable_Any(rec) == rec.present

\* clientEntry && !clientEntry.isActive && !clientEntry.isReady
Evictable(rec) == rec.present /\ ~rec.isActive /\ ~rec.isReady

\* Mutant of CooldownActive: the cooldown test is missing.
CooldownActive_Never(m) == FALSE

\* now - this.lastActionTimestamp < this.actionCooldownMs
CooldownActive(m) == m.cooling

\* The loop of handleHighMemoryUsage over the candidates ts: terminateClient(clientId) for
\* each, every call running up to its await on the teardown promise.
RECURSIVE TerminateEach(_, _, _)
TerminateEach(S, ts, ok) ==
    IF ts = {} THEN S
    ELSE LET t == CHOOSE x \in ts : TRUE
             S1 == cleanupClient(S, t, FullCleanupOption("none"), ok)
             S2 == Await(S1, [kind |-> "term", id |-> S.clients[t].proc, opts |-> "none",
                              own |-> ~LockHeld(S, t)])
         IN TerminateEach(S2, ts \ {t}, ok)

\* A sample above the threshold: checkMemoryUsage calls handleHighMemoryUsage, which
\* returns while the cooldown runs and otherwise stamps the action and terminates every
\* candidate.  ok = FALSE is the store command of a teardown that ends at once failing.
HighMemoryUsage(ok) ==
    /\ Stimulus
    /\ CanCall
    /\ IF CooldownActive(monitor)
       THEN Apply(Cur) /\ monitor' = [monitor EXCEPT !.skipped = TRUE]
       ELSE LET ts == {t \in Tenants : Evictable(clients[t])}
                S == TerminateEach(Cur, ts, ok)
            IN /\ S.nextTd <= MaxTd + 1
               /\ Apply(S)
               /\ monitor' = [monitor EXCEPT !.cooling = TRUE,
                                     !.started = @ \cup (nextTd..(S.nextTd - 1)),
                                     !.spared = @ \cup ({t \in Tenants : clients[t].present} \ ts)]
    /\ UNCHANGED <<artifacts, pathIO, last, recon, disp, sends, tall, queues>>

\* actionCooldownMs have passed since the last action.
CooldownElapsed ==
    /\ Stimulus
    /\ monitor.cooling
    /\ monitor' = [monitor EXCEPT !.cooling = FALSE]
    /\ UNCHANGED <<clients, cleanupLocks, td, redis, artifacts, workers, pathIO, last, waiters,
                   runq, nextW, nextTd, recon, disp, sends, tall, queues>>

\* The supervisor with the monitor sampling beside it; store and file-system commands
\* succeed.
MonNext ==
    \/ NextOver({"t1"}, {TRUE})
    \/ HighMemoryUsage(TRUE)
    \/ CooldownElapsed

MonSpec == Init /\ [][MonNext]_vars

(***************************************************************************)
(* cleanupOrphanedClients (clientStateService.js): the scan of the         *)
(* persisted records at startup, before any session is initialized         *)
(***************************************************************************)

\* The statuses the supervisor writes to the store.
Statuses == {"initializing", "qr_ready", "active", "disconnected"}

\* What a previous run can have left in the store for one tenant: nothing, the record
\* written at fork time {clientId, pid, status} with later status updates, or a hash that
\* a status update created after the record had been deleted (status only).
LeftStates ==
    {NoState}
    \cup [present : {TRUE}, hasId : {TRUE}, pid : 1..MaxOrphans, status : Statuses]
    \cup [present : {TRUE}, hasId : {FALSE}, pid : {0}, status : Statuses]

\* A process of the previous run, which this run's registry does not know.
Orphan(st) == [NoWorker EXCEPT !.state = st]

ReconInit ==
    /\ clients = [t \in Tenants |-> NoClient]
    /\ cleanupLocks = [t \in Tenants |-> 0]
    /\ td = [i \in TdIds |-> NoTd]
    /\ redis \in [Tenants -> LeftStates]
    /\ artifacts \in [Tenants -> BOOLEAN]
    /\ workers \in {ws \in [WorkerIds -> {NoWorker, Orphan("running"), Orphan("exited")}] :
                       \A w \in WorkerIds : (ws[w] = NoWorker) <=> (w > MaxOrphans)}
    /\ pathIO = [w \in WorkerIds |-> 0]
    /\ last = NoCall
    /\ waiters = <<>>
    /\ runq = <<>>
    /\ nextW = MaxOrphans + 1
    /\ nextTd = 1
    /\ events = 0
    /\ recon = NoRecon
    /\ disp = NoDisp
    /\ monitor = NoMonitor
    /\ sends = [s \in SendIds |-> NoSend]
    /\ tall = NoTall
    /\ queues = NoQueues

\* The scan has handled every record it read.
ReconAfter(todo) == IF todo = {} THEN "done" ELSE "loop"

\* getAllClientStates() has answered: the records to visit.
ReconStart ==
    /\ recon.phase = "idle"
    /\ recon' = [phase |-> ReconAfter({t \in Tenants : redis[t].present}),
                 snap |-> redis,
                 todo |-> {t \in Tenants : redis[t].present},
                 cur |-> "none",
                 denied |-> {}]
    /\ UNCHANGED <<clients, cleanupLocks, td, redis, artifacts, workers, pathIO, last, waiters,
                   runq, nextW, nextTd, events, disp, monitor, sends, tall, queues>>

\* What process.kill(pid, 0) can do for a process in state st: return (the process is
\* there and may be signalled), throw ESRCH (no such process), or throw another error
\* (EPERM: the process is there but may not be signalled).
ProbeOutcomes(st) == IF Alive(st) THEN {"alive", "EPERM"} ELSE {"ESRCH"}

\* One iteration of the loop up to its await: skip a record without clientId or pid;
\* otherwise probe the process, SIGTERM it if the probe returned, log an error other than
\* ESRCH, and in any case issue deleteClientState.  ok = FALSE is that command failing.
ReconVisit(t, probe, ok) ==
    /\ recon.phase = "loop"
    /\ t \in recon.todo
    /\ LET st == recon.snap[t]
       IN IF ~st.hasId \/ st.pid = 0
          THEN /\ recon' = [recon EXCEPT !.todo = @ \ {t}, !.phase = ReconAfter(recon.todo \ {t})]
               /\ UNCHANGED <<redis, workers>>
          ELSE /\ probe \in ProbeOutcomes(workers[st.pid].state)
               /\ workers' = IF probe = "alive" /\ workers[st.pid].state = "running"
                             THEN [workers EXCEPT ![st.pid].state = "killed"]
                             ELSE workers
               /\ redis' = IF ok THEN [redis EXCEPT ![t] = NoState] ELSE redis
               /\ recon' = [recon EXCEPT !.todo = @ \ {t}, !.cur = t,
                                         !.phase = IF ok THEN "del" ELSE "failing",
                                         !.denied = IF probe = "EPERM" THEN @ \cup {t} ELSE @]
    /\ UNCHANGED <<clients, cleanupLocks, td, artifacts, pathIO, last, waiters, runq, nextW,
                   nextTd, events, disp, monitor, sends, tall, queues>>

\* deleteClientState has answered: the loop goes on, or, the command having failed inside
\* `finally`, the exception leaves the loop and cleanupOrphanedClients rejects.
ReconDelDone ==
    /\ recon.phase \in {"del", "failing"}
    /\ recon' = [recon EXCEPT !.cur = "none",
                              !.phase = IF @ = "failing" THEN "aborted" ELSE ReconAfter(recon.todo)]
    /\ UNCHANGED <<clients, cleanupLocks, td, redis, artifacts, workers, pathIO, last, waiters,
                   runq, nextW, nextTd, events, disp, monitor, sends, tall, queues>>

ReconNext ==
    \/ ReconStart
    \/ \E t \in Tenants, probe \in {"alive", "ESRCH", "EPERM"}, ok \in BOOLEAN :
          ReconVisit(t, probe, ok)
    \/ ReconDelDone

ReconSpec == ReconInit /\ [][ReconNext]_vars

(***************************************************************************)
(* processRedisQueue (clientProcess.js): the queue consumer a worker       *)
(* starts when its client is ready, with the producer of its queue and     *)
(* the configuration manager of the worker process                         *)
(***************************************************************************)

\* A configuration an operator has stored in the config hash (loadConfigFromRedis merges
\* it over the defaults); its message range overlaps the default rest range.
ReloadedDelays == [msgMin |-> 40000, msgMax |-> 70000, restMin |-> 100000, restMax |-> 200000,
                   limit |-> 10]

\* Math.random() * (max - min) + min, sampled at its least value, its middle and its
\* greatest whole value: the result is in [min, max).
RandomBetween(min, max) == {min, (min + max) \div 2, max - 1}

\* The delays getDelay can return when it counts the job about to be dispatched.
getDelay_BeforeIncrement(messageCount, config) ==
    IF (messageCount - 1) % config.limit = 0
    THEN RandomBetween(config.restMin, config.restMax)
    ELSE RandomBetween(config.msgMin, config.msgMax)

\* The delays getDelay(messageCount, config) can return.
getDelay(messageCount, config) ==
    IF messageCount % config.limit = 0
    THEN RandomBetween(config.restMin, config.restMax)
    ELSE RandomBetween(config.msgMin, config.msgMax)

\* The worker's client is ready: processRedisQueue has read the configuration and
\* issued its first BLPOP; nothing has been queued.
QueueInit ==
    /\ clients = [t \in Tenants |-> NoClient]
    /\ cleanupLocks = [t \in Tenants |-> 0]
    /\ td = [i \in TdIds |-> NoTd]
    /\ redis = [t \in Tenants |-> NoState]
    /\ artifacts = [t \in Tenants |-> FALSE]
    /\ workers = [w \in WorkerIds |-> NoWorker]
    /\ pathIO = [w \in WorkerIds |-> 0]
    /\ last = NoCall
    /\ waiters = <<>>
    /\ runq = <<>>
    /\ nextW = 1
    /\ nextTd = 1
    /\ events = 0
    /\ recon = NoRecon
    /\ disp = [NoDisp EXCEPT !.pc = "blpop"]
    /\ monitor = NoMonitor
    /\ sends = [s \in SendIds |-> NoSend]
    /\ tall = NoTall
    /\ queues = NoQueues

\* Everything but the consumer.
NotDisp == <<clients, cleanupLocks, td, redis, artifacts, workers, pathIO, last, waiters, runq,
             nextW, nextTd, events, recon, monitor, sends, tall, queues>>

\* The producer (API layer) appends the next job to the tenant's list.
DqEnqueue ==
    /\ disp.pc # "off"
    /\ disp.produced < MaxJobs
    /\ disp' = [disp EXCEPT !.produced = @ + 1, !.queue = Append(@, disp.produced + 1)]
    /\ UNCHANGED NotDisp

\* A 'delays_updated' notification: loadConfigFromRedis replaces currentConfig.
DqConfigReload(c) ==
    /\ disp.pc \notin {"off", "dead"}
    /\ c # disp.currentConfig
    /\ disp' = [disp EXCEPT !.currentConfig = c]
    /\ UNCHANGED NotDisp

\* The top of the loop: read the configuration and issue BLPOP.
LoopTop(d) == [d EXCEPT !.pc = "blpop", !.config = d.currentConfig, !.job = 0, !.delay = 0]

\* BLPOP answers: it failed (ok = FALSE), it timed out on an empty list, or it removed
\* the head of the list, which is parsed and handed to client.sendMessage.
DqBlpopReply(ok) ==
    /\ disp.pc = "blpop"
    /\ disp' = IF ~ok THEN [disp EXCEPT !.pc = "errdelay"]
               ELSE IF disp.queue = <<>> THEN LoopTop(disp)
               ELSE [disp EXCEPT !.pc = "send", !.job = Head(disp.queue),
                                 !.queue = Tail(disp.queue), !.handed = @ + 1]
    /\ UNCHANGED NotDisp

\* client.sendMessage settles.  Fulfilled: messageCount++, getDelay, delayExecution.
\* Rejected: the catch block logs and waits 5 s; the job is in no list any more.
DqSendDone(ok, d) ==
    /\ disp.pc = "send"
    /\ IF ok
       THEN /\ d \in getDelay(disp.messageCount + 1, disp.config)
            /\ disp' = [disp EXCEPT !.pc = "delay", !.messageCount = @ + 1, !.sent = @ + 1,
                                    !.delay = d]
       ELSE /\ d = 0
            /\ disp' = [disp EXCEPT !.pc = "errdelay", !.dropped = @ + 1, !.job = 0]
    /\ UNCHANGED NotDisp

\* The setTimeout of delayExecution fires: the next iteration begins.
DqDelayDone ==
    /\ disp.pc \in {"delay", "errdelay"}
    /\ disp' = LoopTop(disp)
    /\ UNCHANGED NotDisp

\* The worker handles 'terminate' (store.save, client.destroy, process.exit) or exits on
\* its own: the loop ends where it stands, and a job being sent is in no list any more.
DqProcessExit ==
    /\ disp.pc \notin {"off", "dead"}
    /\ disp' = [disp EXCEPT !.pc = "dead",
                            !.dropped = IF disp.pc = "send" THEN @ + 1 ELSE @]
    /\ UNCHANGED NotDisp

\* The delays either configuration can produce.
Delays ==
    UNION {RandomBetween(c.msgMin, c.msgMax) \cup RandomBetween(c.restMin, c.restMax) :
           c \in {DefaultDelays, ReloadedDelays}}

QueueNext ==
    \/ DqEnqueue
    \/ \E c \in {DefaultDelays, ReloadedDelays} : DqConfigReload(c)
    \/ \E ok \in BOOLEAN : DqBlpopReply(ok)
    \/ \E ok \in BOOLEAN, d \in Delays \cup {0} : DqSendDone(ok, d)
    \/ DqDelayDone
    \/ DqProcessExit

QueueSpec == QueueInit /\ [][QueueNext]_vars

(***************************************************************************)
(* terminateAllClientsService (clientService.js)                           *)
(***************************************************************************)

\* pLimit(5): the number of terminateClient calls p-limit lets run at a time.
PLimit == 5

\* terminateClient(clientId, { fullCleanup: false }) for each tenant of ts, every call
\* running up to its await on the teardown promise.
RECURSIVE TerminateGracefully(_, _, _)
TerminateGracefully(S, ts, ok) ==
    IF ts = {} THEN S
    ELSE LET t == CHOOSE x \in ts : TRUE
             S1 == cleanupClient(S, t, FullCleanupOption("graceful"), ok)
             S2 == Await(S1, [kind |-> "term", id |-> S.clients[t].proc, opts |-> "graceful",
                              own |-> ~LockHeld(S, t)])
         IN TerminateGracefully(S2, ts \ {t}, ok)

\* terminateAllClientsService() up to `await import('p-limit')`: the ids of the registered
\* tenants are taken; with none registered the call returns.
TerminateAllCall ==
    /\ Stimulus
    /\ CanCall
    /\ tall.phase = "idle"
    /\ LET ids == {t \in Tenants : clients[t].present}
       IN tall' = [phase |-> IF ids = {} THEN "resolved" ELSE "import",
                   ids |-> ids,
                   procs |-> [t \in Tenants |-> clients[t].proc],
                   tds |-> {},
                   started |-> {}]
    /\ UNCHANGED <<clients, cleanupLocks, td, redis, artifacts, workers, pathIO, last, waiters,
                   runq, nextW, nextTd, recon, disp, monitor, sends, queues>>

\* The import has resolved: p-limit starts the first PLimit calls (all of them, the
\* tenants being no more than PLimit) and Promise.all awaits their promises.
TerminateAllStart(ok) ==
    /\ Quiet
    /\ Idle
    /\ tall.phase = "import"
    /\ Cardinality(tall.ids) <= PLimit
    /\ LET S == TerminateGracefully(Cur, tall.ids, ok)
       IN /\ S.nextTd <= MaxTd + 1
          /\ Apply(S)
          /\ tall' = [tall EXCEPT !.phase = "running",
                                  !.tds = {S.locks[t] : t \in tall.ids},
                                  !.started = nextTd..(S.nextTd - 1)]
    /\ UNCHANGED <<artifacts, pathIO, last, events, recon, disp, monitor, sends, queues>>

\* Every terminateClient promise has resolved: Promise.all resolves and the call returns.
TerminateAllDone ==
    /\ Quiet
    /\ Idle
    /\ tall.phase = "running"
    /\ \A i \in tall.tds : td[i].phase = "done"
    /\ tall' = [tall EXCEPT !.phase = "resolved"]
    /\ UNCHANGED <<clients, cleanupLocks, td, redis, artifacts, workers, pathIO, last, waiters,
                   runq, nextW, nextTd, recon, disp, monitor, sends, queues>>

\* The supervisor with one terminateAllClientsService call; store and file-system
\* commands succeed.
AllNext ==
    \/ NextOver({"t1"}, {TRUE})
    \/ TerminateAllCall
    \/ TerminateAllStart(TRUE)
    \/ TerminateAllDone

AllSpec == Init /\ [][AllNext]_vars

(***************************************************************************)
(* sendImmediateMessage (clientService.js) and the worker's                *)
(* send_immediate_message handler (clientProcess.js)                       *)
(***************************************************************************)

\* bindings[0].OWNER_ID of the request, or null when the request has no bindings.
Leads == {"L1", "L2", "null"}

\* The session of t1 is active and ready with worker 1 running, its initialization promise
\* resolved and its QR timeout cleared; no send has been requested.
SendInit ==
    /\ clients = [t \in Tenants |->
                    IF t = "t1"
                    THEN [NoClient EXCEPT !.present = TRUE, !.proc = 1, !.isActive = TRUE,
                                          !.isReady = TRUE]
                    ELSE NoClient]
    /\ cleanupLocks = [t \in Tenants |-> 0]
    /\ td = [i \in TdIds |-> NoTd]
    /\ redis = [t \in Tenants |->
                  IF t = "t1"
                  THEN [present |-> TRUE, hasId |-> TRUE, pid |-> 1, status |-> "active"]
                  ELSE NoState]
    /\ artifacts = [t \in Tenants |-> FALSE]
    /\ workers = [w \in WorkerIds |->
                    IF w = 1
                    THEN [NoWorker EXCEPT !.t = "t1", !.state = "running", !.listeners = "init",
                                          !.initP = "resolved", !.timer = "cleared",
                                          !.outer = "pending"]
                    ELSE NoWorker]
    /\ pathIO = [w \in WorkerIds |-> 0]
    /\ last = NoCall
    /\ waiters = <<>>
    /\ runq = <<>>
    /\ nextW = 2
    /\ nextTd = 1
    /\ events = 0
    /\ recon = NoRecon
    /\ disp = NoDisp
    /\ monitor = NoMonitor
    /\ sends = [s \in SendIds |-> NoSend]
    /\ tall = NoTall
    /\ queues = NoQueues

\* Everything but the sends.
NotSends == <<clients, cleanupLocks, td, redis, artifacts, workers, pathIO, last, waiters, runq,
              nextW, nextTd, events, recon, disp, monitor, tall, queues>>

\* sendImmediateMessage(clientId, messageData) with messageData.leadID = lead: rejects when
\* the tenant has no record; otherwise arms the 30 s timeout, attaches onMessageResponse
\* to the process and sends the job.
SendImmediate(s, t, lead) ==
    /\ sends[s].state = "none"
    /\ \A u \in SendIds : u < s => sends[u].state # "none"
    /\ sends' = [sends EXCEPT ![s] =
                    IF clients[t].present
                    THEN [state |-> "pending", lead |-> lead, listening |-> TRUE,
                          job |-> "working", by |-> 0]
                    ELSE [NoSend EXCEPT !.state = "rejected", !.lead = lead]]
    /\ UNCHANGED NotSends

\* onMessageResponse of send u for an acknowledgment carrying leadID lead: a match on
\* String(msg.leadID) settles the promise and detaches the listener.
onMessageResponse(snd, lead, ok, from) ==
    IF snd.listening /\ snd.lead = lead
    THEN [snd EXCEPT !.state = IF @ = "pending" THEN (IF ok THEN "resolved" ELSE "rejected") ELSE @,
                     !.by = IF snd.state = "pending" THEN from ELSE @,
                     !.listening = FALSE]
    ELSE snd

\* The worker has finished the job of send s and acknowledges it: immediate_message_sent
\* (ok) or immediate_message_error, carrying the job's leadID; every attached listener of
\* the process sees the message.
WorkerAck(s, ok) ==
    /\ sends[s].job = "working"
    /\ sends' = [u \in SendIds |->
                    LET snd == onMessageResponse(sends[u], sends[s].lead, ok, s)
                    IN IF u = s THEN [snd EXCEPT !.job = "acked"] ELSE snd]
    /\ UNCHANGED NotSends

\* The 30 s timeout of send s fires: cleanup() and reject.
SendTimeout(s) ==
    /\ sends[s].state = "pending"
    /\ sends' = [sends EXCEPT ![s].state = "rejected", ![s].listening = FALSE, ![s].by = -1]
    /\ UNCHANGED NotSends

SendNext ==
    \/ \E s \in SendIds, lead \in Leads : SendImmediate(s, "t1", lead)
    \/ \E s \in SendIds, ok \in BOOLEAN : WorkerAck(s, ok)
    \/ \E s \in SendIds : SendTimeout(s)

SendSpec == SendInit /\ [][SendNext]_vars

(***************************************************************************)
(* Two tenants side by side, each with a job list in the store             *)
(***************************************************************************)

\* redis.rpush(queueKey, JSON.stringify(messageData)) with messageData.userId = clientID
Rpush(lists, t) == [lists EXCEPT ![QueueKey(t)] = Append(@, [userId |-> t])]

\* Nothing is registered; one job has been queued for each tenant.
IsoInit ==
    /\ clients = [t \in Tenants |-> NoClient]
    /\ cleanupLocks = [t \in Tenants |-> 0]
    /\ td = [i \in TdIds |-> NoTd]
    /\ redis = [t \in Tenants |-> NoState]
    /\ artifacts = [t \in Tenants |-> FALSE]
    /\ workers = [w \in WorkerIds |-> NoWorker]
    /\ pathIO = [w \in WorkerIds |-> 0]
    /\ last = NoCall
    /\ waiters = <<>>
    /\ runq = <<>>
    /\ nextW = 1
    /\ nextTd = 1
    /\ events = 0
    /\ recon = NoRecon
    /\ disp = NoDisp
    /\ monitor = NoMonitor
    /\ sends = [s \in SendIds |-> NoSend]
    /\ tall = NoTall
    /\ queues = [NoQueues EXCEPT !.lists = Rpush(Rpush(@, "t1"), "t2")]

\* processRedisQueue(clientId, client) of worker w: redis.blpop(queueKey, 5) answers with
\* the head of the list at the key built from the worker's own clientId (process.argv[2]).
QueuePop(w) ==
    /\ Quiet
    /\ workers[w].state = "running"
    /\ LET k == QueueKey(workers[w].t)
       IN /\ queues.lists[k] # <<>>
          /\ queues' = [queues EXCEPT !.lists[k] = Tail(@),
                                      !.popped[w] = Head(queues.lists[k]).userId]
    /\ UNCHANGED <<clients, cleanupLocks, td, redis, artifacts, workers, pathIO, last, waiters,
                   runq, nextW, nextTd, recon, disp, monitor, sends, tall>>

\* Both tenants are driven, with one external event fewer than a single tenant gets.
IsoNext ==
    /\ \/ NextOver(Tenants, {TRUE})
       \/ \E w \in WorkerIds : QueuePop(w)
    /\ events' < MaxEvents

IsoSpec == IsoInit /\ [][IsoNext]_vars

TypeOK ==
    /\ nextW \in 1..(MaxWorkers + 1)
    /\ nextTd \in 1..(MaxTd + 1)
    /\ events \in 0..MaxEvents
    /\ \A t \in Tenants : clients[t].present => clients[t].proc \in WorkerIds

(***************************************************************************)
(* Properties                                                              *)
(***************************************************************************)

Range(q) == {q[n] : n \in 1..Len(q)}

Running(t) == {w \in WorkerIds : workers[w].t = t /\ workers[w].state = "running"}

InFlight(t) == {i \in TdIds : td[i].t = t /\ td[i].phase \notin {"unused", "done"}}

\* C1: at most one live worker process exists per tenant in every reachable state:
\* initialize never forks while an earlier worker of the tenant is still running.
C1_OneLiveWorkerPerTenant == \A t \in Tenants : Cardinality(Running(t)) <= 1

\* C2: every caller of initialize for a worker (the caller that forked it and the callers
\* that found the record initializing) observes the resolution of that worker's initResult.
C2_CallersShareResolution ==
    \A w \in WorkerIds :
        (workers[w].joined # "none" /\ workers[w].initP # "pending")
            => (workers[w].joined = workers[w].initP /\ workers[w].outer = workers[w].initP)

\* C3: the future returned by initialize for a tenant without a record is the record's
\* initResult: once initResult has settled the returned future has settled the same way.
C3_ReturnedFutureIsInitResult ==
    (last.op = "init" /\ last.branch = "fork" /\ workers[last.ex].initP # "pending")
        => workers[last.ex].outer = workers[last.ex].initP

\* C4: initialize on a record that is active or ready resolves at once and changes neither
\* the registry, the workers and their timers, the persisted records, the artifacts,
\* the cleanup locks nor any pending continuation.
C4_ActiveInitializeIsNoOp ==
    [][\A t \in Tenants :
          (InitializeClient(t) /\ clients[t].present /\ (clients[t].isActive \/ clients[t].isReady))
              => /\ last'.op = "init" /\ last'.t = t /\ last'.res = "resolved"
                 /\ UNCHANGED <<clients, cleanupLocks, td, redis, artifacts, workers, pathIO,
                                waiters, runq, nextW, nextTd>>]_vars

C4_Witness ==
    /\ last.op = "init" /\ last.branch = "active" /\ last.res = "resolved"
    /\ clients[last.t].present /\ clients[last.t].isReady
    /\ workers[clients[last.t].proc].state = "running"

\* C5: at most one teardown sequence per tenant is in flight, it is the one stored in
\* cleanupLocks, and every caller waiting for a cleanup of the tenant awaits that one.
C5_AtMostOneCleanupPerTenant ==
    /\ \A t \in Tenants : Cardinality(InFlight(t)) <= 1
    /\ \A t \in Tenants : \A i \in InFlight(t) : cleanupLocks[t] = i
    /\ \A k \in Range(waiters) : td[k.td].phase \notin {"unused", "done"}
                                  /\ cleanupLocks[td[k.td].t] = k.td

C5_Witness ==
    \E i \in TdIds :
        /\ td[i].phase = "wait"
        /\ Len(SelectSeq(waiters, LAMBDA k : k.kind = "term" /\ k.td = i)) >= 2

\* C6: the cleanupLocks entry of a tenant is removed when its teardown completes:
\* no entry refers to a teardown that is over.
C6_LockReleasedOnCompletion ==
    \A t \in Tenants : cleanupLocks[t] # 0 => td[cleanupLocks[t]].phase # "done"

\* C7: when the future returned by terminate resolves, the record that was registered
\* for the tenant when the call was made is no longer in the registry.
C7_ResolvedMeansUnregistered ==
    (last.op = "term" /\ last.res = "resolved" /\ last.ex # 0)
        => ~(clients[last.t].present /\ clients[last.t].proc = last.ex)

\* C8: a graceful teardown never touches the artifacts of its tenant and changes the
\* persisted record only by setting status to disconnected; no step taken while it is in
\* flight deletes the artifacts, and neither does an initialize that follows it.
C8_GracefulKeepsArtifacts ==
    [][/\ \A i \in TdIds :
            (td'[i].phase # td[i].phase /\ ~td'[i].full)
                => /\ artifacts'[td'[i].t] = artifacts[td'[i].t]
                   /\ \/ redis'[td'[i].t] = redis[td'[i].t]
                      \/ redis'[td'[i].t] = HmsetStatus(redis[td'[i].t], "disconnected")
       /\ \A i \in TdIds :
            (td[i].phase \notin {"unused", "done"} /\ ~td[i].full)
                => (artifacts[td[i].t] => artifacts'[td[i].t])
       /\ \A t \in Tenants : InitializeClient(t) => artifacts' = artifacts]_vars

C8_Witness ==
    \E i \in TdIds :
        /\ td[i].phase = "done" /\ ~td[i].full /\ td[i].proc # 0
        /\ artifacts[td[i].t]
        /\ clients[td[i].t].present /\ clients[td[i].t].proc # td[i].proc
        /\ redis[td[i].t].status = "initializing"

\* C9: when a full teardown of a tenant's session completes, none of its steps having
\* failed, the persisted state record of the tenant is absent and its artifacts are absent.
C9_FullTeardownWipes ==
    [][\A i \in TdIds :
          (td[i].phase # "done" /\ td'[i].phase = "done" /\ td'[i].full /\ ~td'[i].failed
              /\ td'[i].proc # 0)
              => (~redis'[td'[i].t].present /\ ~artifacts'[td'[i].t])]_vars

\* C10: a terminateClient(clientId) call without options for a registered tenant, which
\* starts the teardown, is a graceful shutdown: when its future resolves the persisted
\* record is still there, with status disconnected.
C10_TerminateDefaultIsGraceful ==
    [][(last' # last /\ last'.op = "term" /\ last'.opts = "none" /\ last'.own /\ last'.ex # 0)
          => (redis'[last'.t].present /\ redis'[last'.t].status = "disconnected")]_vars

\* Statuses for which the stale case of initializeClient asks for a full cleanup.
FailureStatuses == {"auth_failure", "init_error"}

\* C11: when initializeClient finds a stale record and starts the teardown, the teardown is
\* FULL exactly when the recorded process is alive or the persisted status is a failure
\* status, and GRACEFUL otherwise; the call forks only after that teardown has completed.
C11_StaleTeardownByLiveness ==
    [][/\ \A ex \in WorkerIds :
            ((\E ok \in BOOLEAN : InitPathDone(ex, ok)) /\ ~LockHeld(Cur, workers[ex].t))
            => /\ td'[nextTd].t = workers[ex].t
               /\ td'[nextTd].full = (Alive(workers[ex].state)
                                       \/ redis[workers[ex].t].status \in FailureStatuses)
       /\ \A k \in Range(runq) : k.kind = "init" => td[k.td].phase = "done"]_vars

\* C12: the initialization promise of a worker that exited unexpectedly while the promise
\* was pending does not stay pending once the teardown of the worker's record has completed
\* (its QR timeout being out of the way): the callers awaiting initialization get an answer.
C12_ExitRejectsInit ==
    \A w \in WorkerIds :
        (/\ workers[w].fatal = "exit" /\ workers[w].initP = "pending" /\ ~workers[w].readyT
         /\ workers[w].timer # "armed"
         /\ \E i \in TdIds : td[i].proc = w /\ td[i].phase = "done")
        ~> (workers[w].initP # "pending")

\* C13: the handler of an auth_failure or init_error message leaves neither promise of the
\* sending worker's session pending: each one that was pending is rejected.
C13_FailureRejectsBothFutures ==
    [][\A w \in WorkerIds, m \in {"auth_failure", "init_error"} :
          (\E ok \in BOOLEAN : WorkerMessage(w, m, ok))
          => /\ workers'[w].initP # "pending"
             /\ workers'[w].qrP # "pending"
             /\ workers[w].initP = "pending" => workers'[w].initP = "rejected"
             /\ workers[w].qrP = "pending" => workers'[w].qrP = "rejected"]_vars

C13_Witness ==
    \E w \in WorkerIds :
        /\ workers[w].fatal \in {"auth_failure", "init_error"}
        /\ workers[w].initP = "rejected"
        /\ workers[w].qrP = "rejected"

\* C14: every fatal session event of a worker (disconnected, auth_failure, init_error,
\* unexpected exit) is eventually followed by a completed full teardown of that worker's
\* record, the record being out of the registry.
C14_FatalLeadsToFullTeardown ==
    \A w \in WorkerIds :
        (workers[w].fatal # "none")
        ~> (/\ \A t \in Tenants : ~(clients[t].present /\ clients[t].proc = w)
            /\ \E i \in TdIds : td[i].proc = w /\ td[i].full /\ td[i].phase = "done")

\* C15: when the QR timeout fires and the tenant's record is neither active nor ready, a
\* full teardown of that record is under way after the callback's first step, and the
\* initialization promise of the timer's session does not stay pending.
C15_QrTimeoutTearsDownAndRejects ==
    /\ [][\A w \in WorkerIds :
            LET t == workers[w].t
            IN ((\E ok \in BOOLEAN : QrTimerFire(w, ok))
                /\ clients[t].present /\ ~clients[t].isActive /\ ~clients[t].isReady)
               => /\ cleanupLocks'[t] # 0
                  /\ td'[cleanupLocks'[t]].phase # "done"
                  /\ td'[cleanupLocks'[t]].full
                  /\ td'[cleanupLocks'[t]].proc = clients[t].proc]_vars
    /\ \A w \in WorkerIds :
          (workers[w].timer = "fired" /\ workers[w].initP = "pending")
          ~> (workers[w].initP = "rejected")

\* C16: once the QR timeout of a session has fired for a record that was neither active
\* nor ready, the session's QR promise does not stay pending.
C16_ScanResultTimesOut ==
    \A w \in WorkerIds :
        (workers[w].timer = "fired") ~> (workers[w].qrP # "pending")

\* C17: once a terminateClient call that started the teardown of a session whose
\* initialization promise is pending has resolved, and the session's QR timeout can no
\* longer fire, the initialization promise does not stay pending: no caller of initialize
\* stays blocked.
C17_TerminateRejectsPendingInit ==
    \A w \in WorkerIds :
        (/\ last.op = "term" /\ last.res = "resolved" /\ last.ex = w /\ last.own
         /\ workers[w].initP = "pending" /\ workers[w].timer # "armed")
        ~> (workers[w].initP # "pending")

\* C18: every teardown sequence that has started eventually completes, and every caller
\* awaiting it is eventually resumed.
C18_CleanupTerminates ==
    (waiters # <<>> \/ \E i \in TdIds : td[i].phase \notin {"unused", "done"})
    ~> (waiters = <<>> /\ \A i \in TdIds : td[i].phase \in {"unused", "done"})

C18_Witness ==
    \E i \in TdIds :
        /\ td[i].phase = "done" /\ td[i].proc # 0
        /\ workers[td[i].proc].state = "killed"
        /\ last.op = "term" /\ last.res = "resolved" /\ last.ex = td[i].proc

\* C19: a failing step of a teardown does not abort the later steps: after a full
\* teardown's store command the directory is still examined, every completed teardown has
\* removed the record it was started for, and a terminateClient call never ends rejected.
C19_CleanupIsBestEffort ==
    [][/\ \A i \in TdIds :
            (td[i].phase = "state" /\ td[i].full /\ td'[i].phase # "state")
            => td'[i].phase = "path"
       /\ \A i \in TdIds :
            (td[i].phase = "path" /\ artifacts[td[i].t] /\ td'[i].phase # "path")
            => td'[i].phase = "rm"
       /\ \A i \in TdIds :
            (td'[i].phase \in {"state", "path", "rm", "done"} /\ td'[i].proc # 0)
            => ~(clients'[td'[i].t].present /\ clients'[td'[i].t].proc = td'[i].proc)
       /\ last'.op = "term" => last'.res = "resolved"]_vars

C19_Witness ==
    \E i \in TdIds :
        /\ td[i].phase = "done" /\ td[i].full /\ td[i].failed /\ td[i].proc # 0
        /\ ~clients[td[i].t].present
        /\ last.op = "term" /\ last.res = "resolved" /\ last.ex = td[i].proc

\* C20: when a pass of cleanupOrphanedClients ends, every record it read with status
\* initializing and a recorded process that is not alive is still in the store, with status
\* disconnected; no step of the pass changes the session directories.
C20_ReconcilerSoftensDeadInitializing ==
    [][/\ artifacts' = artifacts
       /\ (recon.phase # "done" /\ recon'.phase = "done")
          => \A t \in Tenants :
                LET st == recon'.snap[t]
                IN (st.present /\ st.hasId /\ st.pid # 0 /\ st.status = "initializing"
                    /\ ~Alive(workers'[st.pid].state))
                   => (redis'[t].present /\ redis'[t].status = "disconnected")]_vars
\* C21: when a pass of cleanupOrphanedClients ends, every record it read whose process was
\* alive and was signalled (the registry knowing no session at startup) has its record
\* deleted from the store and its session directory deleted.
C21_ReconcilerHardCase ==
    recon.phase = "done"
    => \A t \in Tenants :
          LET st == recon.snap[t]
          IN (st.present /\ st.hasId /\ st.pid # 0 /\ workers[st.pid].state = "killed")
             => (~redis[t].present /\ ~artifacts[t])

\* C22: a record whose liveness probe threw an error other than ESRCH is not deleted from
\* the store, nor rewritten, while its process is left running.
C22_ProbeErrorMeansAlive ==
    \A t \in recon.denied :
        workers[recon.snap[t].pid].state = "running" => redis[t] = recon.snap[t]

\* C23: a pass of cleanupOrphanedClients never stops with records it read and has not
\* visited, whatever failed while it handled one of them.
C23_ReconcilerScansEveryRecord ==
    recon.phase \in {"done", "aborted"} => recon.todo = {}

\* The statuses of a dead process's record that the reconciler is to leave alone
\* (Disconnected, Active, Ready and AwaitingScan; ready and active are one status here).
IgnoredStatuses == {"disconnected", "active", "qr_ready"}

\* C24: no step of the reconciler changes a record whose process is not alive and whose
\* status is disconnected, active or qr_ready, nor signals its process, nor changes the
\* session directories.
C24_ReconcilerIgnoreCase ==
    [][\A t \in Tenants :
          (/\ redis[t].present /\ redis[t].hasId /\ redis[t].pid # 0
           /\ ~Alive(workers[redis[t].pid].state)
           /\ redis[t].status \in IgnoredStatuses)
          => (/\ redis'[t] = redis[t]
              /\ workers'[redis[t].pid] = workers[redis[t].pid]
              /\ artifacts'[t] = artifacts[t])]_vars
\* C25: every job taken from the tenant's list is handed to client.sendMessage once and
\* none is dropped: each job produced is in the list, being sent, or sent.
C25_JobsConsumedExactlyOnce ==
    /\ disp.dropped = 0
    /\ disp.handed = disp.sent + (IF disp.pc = "send" THEN 1 ELSE 0)
    /\ disp.produced = Len(disp.queue) + disp.handed

\* The burst limit of the statement.
BurstLimit == 10

\* lo <= d <= hi
InRange(d, lo, hi) == lo <= d /\ d <= hi

\* C26: with a burst limit of 10, the delay after the k-th dispatched job of the consumer
\* lies in the rest range of the configuration read in that iteration exactly when k is a
\* positive multiple of 10, and in its message range for every other k.
C26_ThrottleBoundary ==
    (disp.pc = "delay" /\ disp.config.limit = BurstLimit)
    => LET k == disp.messageCount
           c == disp.config
       IN /\ k > 0
          /\ InRange(disp.delay, c.restMin, c.restMax) <=> (k % BurstLimit = 0)
          /\ InRange(disp.delay, c.msgMin, c.msgMax) <=> (k % BurstLimit # 0)

\* The 20th job has been dispatched under a reloaded configuration that has since been
\* replaced, and the consumer sleeps.
C26_Witness ==
    /\ disp.pc = "delay"
    /\ disp.messageCount = 2 * BurstLimit
    /\ disp.config = ReloadedDelays
    /\ disp.currentConfig = DefaultDelays
\* C27: an action of the monitor starts teardowns only for tenants whose record is neither
\* active nor ready when it runs, and leaves every active or ready record, its worker and
\* its lock entry as they were.
C27_MonitorSparesLiveSessions ==
    [][HighMemoryUsage(TRUE)
          => /\ \A i \in monitor'.started \ monitor.started :
                   ~clients[td'[i].t].isActive /\ ~clients[td'[i].t].isReady
             /\ \A t \in Tenants :
                   (clients[t].present /\ (clients[t].isActive \/ clients[t].isReady))
                   => /\ clients'[t] = clients[t]
                      /\ workers'[clients[t].proc] = workers[clients[t].proc]
                      /\ cleanupLocks'[t] = cleanupLocks[t]
                      /\ redis'[t] = redis[t]]_vars

\* An action of the monitor has run past an active or ready session, which is still
\* registered with its worker running.
C27_Witness ==
    \E t \in monitor.spared :
        /\ clients[t].present /\ (clients[t].isActive \/ clients[t].isReady)
        /\ workers[clients[t].proc].state = "running"
        /\ monitor.cooling

\* C28: a teardown started by the monitor is graceful: no step taken while it is in flight
\* deletes the tenant's session directory, and when it completes the persisted record
\* exists with status disconnected.
C28_MonitorEvictsGracefully ==
    [][\A i \in monitor.started :
          td[i].phase # "done"
          => /\ artifacts[td[i].t] => artifacts'[td[i].t]
             /\ td'[i].phase = "done"
                   => (redis'[td[i].t].present /\ redis'[td[i].t].status = "disconnected")]_vars
\* getClientStatus: connected is reported for a registered record that is active or ready.
getClientStatus(t) == clients[t].present /\ (clients[t].isActive \/ clients[t].isReady)

\* C29: once the handler of a disconnected, auth_failure, init_error or exit event of a
\* worker has run and started the worker's teardown, or a terminate of the worker's session
\* has resolved, a status query does not report the tenant as connected while that worker's
\* record is the registered one.
C29_FailedSessionNotConnected ==
    /\ \A w \in WorkerIds :
          (workers[w].fatal # "none" /\ ~workers[w].discIO /\ \E i \in TdIds : td[i].proc = w)
          => ~(getClientStatus(workers[w].t) /\ clients[workers[w].t].proc = w)
    /\ (last.op = "term" /\ last.res = "resolved" /\ last.ex # 0)
          => ~(getClientStatus(last.t) /\ clients[last.t].proc = last.ex)

\* The status the store is to hold for the registered record of worker w: the failure or
\* disconnect its handlers have seen, else active, initializing or qr_ready by the flags.
LifecycleStatus(w) ==
    LET rec == clients[workers[w].t]
    IN IF workers[w].fatal \in FailureStatuses \cup {"disconnected"} THEN workers[w].fatal
       ELSE IF rec.isActive THEN "active"
       ELSE IF rec.isInitializing THEN "initializing"
       ELSE "qr_ready"

\* C30: the persisted status of a registered tenant whose process runs equals the state of
\* its in-memory record (every store write is applied when it is issued).
C30_PersistedStatusMirrorsRecord ==
    \A w \in WorkerIds :
        (/\ workers[w].state = "running"
         /\ clients[workers[w].t].present /\ clients[workers[w].t].proc = w
         /\ redis[workers[w].t].present /\ redis[workers[w].t].pid = w)
        => redis[workers[w].t].status = LifecycleStatus(w)
\* C31: a high-memory sample taken while the cooldown runs starts no teardown, changes no
\* record and leaves the cooldown as it is; a sample taken when no cooldown runs starts
\* the cooldown.
C31_OneActionPerCooldown ==
    [][HighMemoryUsage(TRUE)
          => IF monitor.cooling
             THEN /\ monitor'.cooling /\ monitor'.started = monitor.started
                  /\ UNCHANGED <<clients, cleanupLocks, td, redis, artifacts, workers, waiters,
                                 runq, nextTd>>
             ELSE monitor'.cooling]_vars

\* A sample was skipped in the cooldown of an action that had started a teardown, while a
\* record that is neither active nor ready is registered.
C31_Witness ==
    /\ monitor.skipped /\ monitor.cooling /\ monitor.started # {}
    /\ \E t \in Tenants : Evictable(clients[t])
\* The messages of a worker after which its session is over.
TerminalMessages == {"disconnected", "auth_failure", "init_error", "terminated"}

\* C32: the QR timeout of a worker, firing when the registered record is active or ready,
\* starts no teardown and changes nothing; and when the handler of 'ready' or of a
\* terminal-state message of a worker has run, that worker's QR timeout is no longer armed.
C32_DeadlineSparesReadyRecord ==
    [][\A w \in WorkerIds, ok \in BOOLEAN :
          /\ (QrTimerFire(w, ok) /\ getClientStatus(workers[w].t))
                => UNCHANGED <<clients, cleanupLocks, td, redis, artifacts, waiters, runq, nextTd>>
          /\ \A m \in (TerminalMessages \ {"disconnected"}) \cup {"ready"} :
                WorkerMessage(w, m, ok) => workers'[w].timer # "armed"
          /\ DisconnectedCont(w, ok) => workers'[w].timer # "armed"]_vars
\* C33: a 'qr' message handled while the record is initializing resolves the QR promise
\* and the initialization promise, ends the initializing state, persists status qr_ready,
\* and leaves the QR timeout as it was.
C33_QrResolvesEarly ==
    [][\A w \in WorkerIds, ok \in BOOLEAN :
          (WorkerMessage(w, "qr", ok) /\ clients[workers[w].t].isInitializing)
          => LET t == workers[w].t
             IN /\ workers'[w].qrP = Settle(workers[w].qrP, "resolved")
                /\ workers'[w].initP = Settle(workers[w].initP, "resolved")
                /\ ~clients'[t].isInitializing
                /\ redis'[t].present /\ redis'[t].status = "qr_ready"
                /\ \A v \in WorkerIds : workers'[v].timer = workers[v].timer
                /\ clients'[t].qrTimeout = clients[t].qrTimeout]_vars

\* The worker has sent 'qr' during initialization: both promises are resolved, the status
\* is qr_ready and the QR timeout is still armed.
C33_Witness ==
    \E w \in WorkerIds :
        /\ workers[w].state = "running"
        /\ clients[workers[w].t].present /\ clients[workers[w].t].proc = w
        /\ workers[w].qrP = "resolved" /\ workers[w].initP = "resolved"
        /\ ~workers[w].readyT
        /\ redis[workers[w].t].status = "qr_ready"
        /\ workers[w].timer = "armed" /\ clients[workers[w].t].qrTimeout
\* C34: the promise of a send is settled only by the acknowledgment of its own job or by
\* its timeout, and a settled send has no listener attached.
C34_AckSettlesOwnSendOnly ==
    \A s \in SendIds :
        /\ sends[s].by \in {0, s, -1}
        /\ sends[s].state # "pending" => ~sends[s].listening
\* C35: no more than 5 teardowns started by a terminateAllClientsService call are in flight
\* at a time, each of them is graceful, and when the call resolves no tenant registered
\* when it was made is still registered with the worker it had then.
C35_TerminateAllBounded ==
    /\ [](/\ Cardinality({i \in tall.started : td[i].phase # "done"}) <= PLimit
          /\ \A i \in tall.started : ~td[i].full)
    /\ [][TerminateAllDone
            => \A t \in tall.ids :
                  ~(clients'[t].present /\ clients'[t].proc = tall.procs[t])]_vars
\* A timer or handler created with worker w runs in this step.
HandlerOf(w) ==
    \/ \E ok \in BOOLEAN : QrTimerFire(w, ok)
    \/ \E ok \in BOOLEAN : WorkerExit(w, ok)
    \/ \E m \in Messages, ok \in BOOLEAN : WorkerMessage(w, m, ok)
    \/ \E ok \in BOOLEAN : DisconnectedCont(w, ok)
    \/ ReadyTimerFire(w)
    \/ (runq # <<>> /\ Head(runq).kind \in {"exit", "timer"} /\ Head(runq).id = w /\ RunMicrotask)

\* C36: a timer or handler created with a worker that is no longer the registered one
\* leaves the record of the worker registered for the same tenant, that worker's promises
\* and timer, and the tenant's lock entry as they were.
C36_RetiredHandlersSpareSuccessor ==
    [][\A w \in WorkerIds :
          (/\ workers[w].state # "unborn"
           /\ clients[workers[w].t].present /\ clients[workers[w].t].proc # w
           /\ HandlerOf(w))
          => LET t == workers[w].t
                 v == clients[t].proc
             IN /\ clients'[t] = clients[t]
                /\ workers'[v] = workers[v]
                /\ cleanupLocks'[t] = cleanupLocks[t]]_vars
\* C37: a teardown deletes the record of a worker from the registry only when that worker
\* is no longer running (it has exited or has been sent SIGKILL), and a teardown that is past
\* its wait has no running worker.
C37_RemovedRecordHasNoRunningWorker ==
    /\ [](\A i \in TdIds :
            td[i].phase \notin {"unused", "wait"} /\ td[i].proc # 0
            => workers[td[i].proc].state # "running")
    /\ [][\A t \in Tenants :
            (clients[t].present /\ ~clients'[t].present)
            => workers'[clients[t].proc].state # "running"]_vars

\* A teardown has removed a record after its 10 s timer sent SIGKILL to the worker.
C37_Witness ==
    \E i \in TdIds :
        /\ td[i].phase \notin {"unused", "wait"} /\ td[i].proc # 0
        /\ ~clients[td[i].t].present
        /\ workers[td[i].proc].state = "killed"
\* C38: when initializeClient(t) resolves at once as the 'already active/ready' no-op, no
\* teardown of t's record is waiting for the worker of that record.
C38_NoSuccessDuringTeardown ==
    [][\A t \in Tenants :
          (InitializeClient(t) /\ last'.branch = "active")
          => ~\E i \in TdIds : /\ td[i].t = t
                               /\ td[i].phase = "wait"
                               /\ td[i].proc = clients[t].proc]_vars
\* C39: every persisted record that is present in the store carries both the tenant id and
\* the pid.
C39_PersistedRecordHasIdAndPid ==
    \A t \in Tenants : redis[t].present => redis[t].hasId /\ redis[t].pid # 0
\* What belongs to tenant b: its session record, its lock entry, its persisted record, its
\* artifacts, its job list, and the workers (with their promises and timers) and teardowns
\* created for it.
TenantView(b) ==
    <<clients[b], cleanupLocks[b], redis[b], artifacts[b], queues.lists[QueueKey(b)],
      [w \in WorkerIds |-> IF workers[w].t = b THEN <<workers[w], pathIO[w], queues.popped[w]>>
                           ELSE <<>>],
      [i \in TdIds |-> IF td[i].t = b THEN td[i] ELSE NoTd]>>

\* An operation, worker event, timer or continuation of tenant a takes this step.
ActsFor(a) ==
    \/ InitializeClient(a)
    \/ \E opts \in {"none", "graceful"}, ok \in BOOLEAN : TerminateClient(a, opts, ok)
    \/ \E w \in WorkerIds :
          /\ workers[w].t = a
          /\ \/ HandlerOf(w)
             \/ \E ok \in BOOLEAN : InitPathDone(w, ok)
             \/ WorkerSaveSession(w)
             \/ QueuePop(w)
    \/ \E i \in TdIds :
          /\ td[i].t = a
          /\ \/ \E ok \in BOOLEAN : TdTimeout(i, ok)
             \/ TdStateDone(i)
             \/ TdPathDone(i)
             \/ \E ok \in BOOLEAN : TdRmDone(i, ok)
    \/ (runq # <<>> /\ td[Head(runq).td].t = a /\ RunMicrotask)

\* C40: a step taken for tenant a leaves everything that belongs to another tenant b as it
\* was, and a worker pops only jobs that were queued for its own tenant.
C40_TenantsIsolated ==
    /\ [](\A w \in WorkerIds : queues.popped[w] # "none" => queues.popped[w] = workers[w].t)
    /\ [][\A a \in Tenants : ActsFor(a) => \A b \in Tenants \ {a} : TenantView(b)' = TenantView(b)]_vars

\* Both tenants are registered, the worker of t1 has popped its job while t2's job is
\* still queued.
C40_Witness ==
    /\ clients["t1"].present /\ clients["t2"].present
    /\ queues.popped[clients["t1"].proc] = "t1"
    /\ queues.lists[QueueKey("t2")] # <<>>
====
